---- MODULE Spec2Model ----
(***************************************************************************)
(* Model of the two stages of the ClassifyTeams pipeline:                  *)
(*   - classify_threads.py : the thread classifier (specification Spec,    *)
(*     and LiveSpec, which adds the fairness of a running program)         *)
(*   - anonymize_messages.py : the thread assembler                        *)
(*     (specification AssemblerSpec; AnonSpec for messages with authors    *)
(*     and bodies; StripSpec for strip_html on its own)                    *)
(* Each stage is a sequential program; pc is the line of main() the        *)
(* process is about to execute, status says whether it is still running.   *)
(***************************************************************************)
EXTENDS Integers, Sequences, FiniteSets, TLC

VARIABLES
    pc,           \* classifier: position in main()
    status,       \* "running" | "done" | "fatal" | "crashed" | "interrupted"
    api_key,      \* whether OPENAI_API_KEY is set in the environment
    max_retries,  \* args.max_retries
    sleep,        \* args.sleep
    threads,      \* data.get("threads", []): the thread ids of the input file
    idx,          \* enumerate index of the thread being processed (0: none yet)
    attempt,      \* attempt
    parsed,       \* parsed
    error,        \* error
    results,      \* results
    file,         \* the output artifact args.output
    inflight,     \* number of service requests sent and not yet answered
    calls,        \* calls[i]: number of call_openai invocations made for thread i
    ok,           \* ok[i]: some attempt of thread i returned a truthy parsed value
    delays,       \* delays[i]: number of time.sleep(1.0) calls made for thread i
    last_fail,    \* description of the current thread's latest failed attempt
    mixed,        \* two failed attempts of the current thread differ in description
    naps,         \* number of time.sleep(args.sleep) calls that have returned
    prev_dump,    \* the results the latest completed json.dump wrote
    a_pc,         \* assembler: position in main()
    doc,          \* the shape of the JSON document json.load returns
    keep_html,    \* args.keep_html
    messages,     \* data.get("messages", []) of the assembler's input
    by_id,        \* by_id
    conv_threads, \* the assembler's threads dict, in insertion order
    cursor,       \* how many elements the running for loop has consumed
    thread_list,  \* thread_list
    out,          \* the assembler's output file args.output
    s_pc,         \* strip_html applied on its own: how often it has been applied
    given,        \* the string strip_html is given
    stripped,     \* strip_html(given)
    restripped    \* strip_html(strip_html(given))

\* the classifier's variables, its history variables, the assembler's variables
\* and those of strip_html applied on its own
gvars == <<delays, last_fail, mixed, naps, prev_dump>>
cvars == <<pc, status, api_key, max_retries, sleep, threads, idx, attempt, parsed,
           error, results, file, inflight, calls, ok, gvars>>
avars == <<a_pc, doc, keep_html, messages, by_id, conv_threads, cursor, thread_list, out>>
svars == <<s_pc, given, stripped, restripped>>
vars == <<cvars, avars, svars>>

----------------------------------------------------------------------------
(* Bounds of the model *)

MaxThreads == 2
MaxRetries == 1

ThreadIds == {"T1", "T2"}

\* the values of --max-retries tried: argparse's type=int accepts negative ones
RetryArgs == (-1)..MaxRetries

\* the values of --sleep tried: argparse's type=float accepts negative ones
SleepArgs == {-1, 0, 1}

RECURSIVE SeqsUpTo(_, _)
SeqsUpTo(S, n) ==
    IF n = 0 THEN {<<>>}
    ELSE LET shorter == SeqsUpTo(S, n - 1)
         IN  shorter \cup {Append(s, x) : s \in {t \in shorter : Len(t) = n - 1}, x \in S}

----------------------------------------------------------------------------
(* Python values *)

\* Python's None (no error string of the program equals it)
None == "None"

\* a JSON value as Python holds it: a dict (items: key -> value) or a list
Dict(f) == [kind |-> "dict", items |-> f]
List(s) == [kind |-> "list", items |-> s]
EmptyDict == Dict(<<>>)

\* bool(v) for a dict or a list: non-empty
Truthy(v) == DOMAIN v.items # {}

\* v.get(key, ""): only a dict has .get
DictGet(v, key) == IF key \in DOMAIN v.items THEN v.items[key] ELSE ""

----------------------------------------------------------------------------
(* The external service: what one call_openai invocation can produce *)

FullContent ==
    "{\"Incident Number\":\"INC1\",\"Root Cause\":\"disk full\",\"Type\":\"Error\",\"Severity\":\"High\"}"
PartialContent == "{\"Type\":\"Restart\"}"
OtherContent == "{\"foo\":\"bar\"}"

\* choices[0].message.content values the service may send
Contents == {"", "not json", "{}", "[]", "[1]", FullContent, PartialContent, OtherContent}

\* whether json.loads(content) raises JSONDecodeError
IsJson(content) == content \notin {"", "not json"}

\* json.loads(content) for the contents above
JsonLoads(content) ==
    CASE content = "{}" -> EmptyDict
      [] content = "[]" -> List(<<>>)
      [] content = "[1]" -> List(<<1>>)
      [] content = FullContent ->
            Dict(("Incident Number" :> "INC1") @@ ("Root Cause" :> "disk full")
                 @@ ("Type" :> "Error") @@ ("Severity" :> "High"))
      [] content = PartialContent -> Dict("Type" :> "Restart")
      [] content = OtherContent -> Dict("foo" :> "bar")

\* what urlopen / resp.read / json.loads(body) of call_openai can do:
\*   raise HTTPError, URLError (connection refused, connect timeout),
\*   raise TimeoutError (socket timeout while the response is awaited or read),
\*   raise JSONDecodeError (the body is not JSON),
\*   return a decoded body: a mapping with its choices, or a JSON value that is
\*   no mapping.
Raises == {"HTTPError", "URLError", "TimeoutError", "JSONDecodeError"}

Responses ==
    {[mapping |-> FALSE, choices |-> <<>>], [mapping |-> TRUE, choices |-> <<>>]}
    \cup {[mapping |-> TRUE, choices |-> <<c>>] : c \in Contents}

Outcomes ==
    {[raises |-> e, resp |-> [mapping |-> TRUE, choices |-> <<>>]] : e \in Raises}
    \cup {[raises |-> None, resp |-> r] : r \in Responses}

\* the exception types the except clause of the retry loop names
CaughtExceptions == {"HTTPError", "URLError", "JSONDecodeError"}

\* str(e) of a caught exception
StrOfException(e) ==
    CASE e = "HTTPError" -> "HTTP Error 500: Internal Server Error"
      [] e = "URLError" -> "<urlopen error [Errno 111] Connection refused>"
      [] e = "JSONDecodeError" -> "Expecting value: line 1 column 1 (char 0)"

EmptyReplyError == "Empty or invalid JSON response"

\* extract_json_content(resp), for resp a mapping
extract_json_content(resp) ==
    IF resp.choices = <<>> THEN EmptyDict
    ELSE LET content == resp.choices[1]
         IN  IF content = "" THEN EmptyDict
             ELSE IF IsJson(content) THEN JsonLoads(content) ELSE EmptyDict

----------------------------------------------------------------------------
(* The classifier: main() of classify_threads.py *)

\* the output artifact: absent, truncated by open(.., "w"), or holding a dump
Absent == [exists |-> FALSE, complete |-> FALSE, results |-> <<>>]
Truncated == [exists |-> TRUE, complete |-> FALSE, results |-> <<>>]
\* a variant of the dump that writes the latest result only
Dumped_lastOnly(rs) ==
    [exists |-> TRUE, complete |-> TRUE, results |-> SubSeq(rs, Len(rs), Len(rs))]

\* the artifact once json.dump({"results": rs}, f) has written and f is closed
Dumped(rs) == [exists |-> TRUE, complete |-> TRUE, results |-> rs]

\* a variant that never finds the credential missing
KeyMissing_never(key) == FALSE

\* if not api_key
KeyMissing(key) == ~key

\* while attempt <= args.max_retries
LoopCondition(a, mr) == a <= mr

\* a variant that reports the last error also after a success
ResultError_keepsError(p, e) == e

\* a variant that keeps the description of the thread's first failed attempt
RecordError_keepFirst(old, new) == IF old = None THEN new ELSE old

\* error = str(e), error = "Empty or invalid JSON response": the description of
\* the failed attempt replaces the one error held
RecordError(old, new) == new

\* "error": error if not parsed else None
ResultError(p, e) == IF Truthy(p) THEN None ELSE e

\* the result dict built for a thread
Result(tid, p, e) ==
    [thread_id |-> tid,
     incident_number |-> DictGet(p, "Incident Number"),
     root_cause |-> DictGet(p, "Root Cause"),
     type |-> DictGet(p, "Type"),
     severity |-> DictGet(p, "Severity"),
     error |-> ResultError(p, e)]

\* a variant that skips the rewrite after a thread
AfterAppend_noRewrite == "progress"

\* where main() goes once the result is appended: the rewrite of the artifact
AfterAppend == "open"

\* a variant that never makes the inter-thread delay
AfterDump_noSleep(s) == "progress"

\* if args.sleep: time.sleep(args.sleep)
AfterDump(s) == IF s # 0 THEN "thread_sleep" ELSE "progress"

\* time.sleep(secs) raises ValueError for a negative secs
SleepRaises(secs) == secs < 0

\* the assembler is not part of a classifier run
AssemblerOff ==
    /\ a_pc = "off"
    /\ doc = "off"
    /\ keep_html = FALSE
    /\ messages = <<>>
    /\ by_id = <<>>
    /\ conv_threads = <<>>
    /\ cursor = 0
    /\ thread_list = <<>>
    /\ out = [exists |-> FALSE, threads |-> <<>>]

\* strip_html is not applied on its own
StripOff ==
    /\ s_pc = "off"
    /\ given = <<>>
    /\ stripped = <<>>
    /\ restripped = <<>>

Init ==
    /\ pc = "check_key"
    /\ status = "running"
    /\ api_key \in BOOLEAN
    /\ max_retries \in RetryArgs
    /\ sleep \in SleepArgs
    /\ threads \in SeqsUpTo(ThreadIds, MaxThreads)
    /\ idx = 0
    /\ attempt = 0
    /\ parsed = EmptyDict
    /\ error = None
    /\ results = <<>>
    /\ file = Absent
    /\ inflight = 0
    /\ calls = <<>>
    /\ ok = <<>>
    /\ delays = <<>>
    /\ last_fail = None
    /\ mixed = FALSE
    /\ naps = 0
    /\ prev_dump = <<>>
    /\ AssemblerOff
    /\ StripOff

Running(at) == status = "running" /\ pc = at

\* api_key = os.getenv(..); if not api_key: raise SystemExit(..)
CheckKey ==
    /\ Running("check_key")
    /\ IF KeyMissing(api_key)
       THEN pc' = pc /\ status' = "fatal"
       ELSE pc' = "load" /\ status' = status
    /\ UNCHANGED <<avars, svars, gvars, api_key, max_retries, sleep, threads, idx, attempt, parsed, error,
                   results, file, inflight, calls, ok>>

\* json.load of the input; threads = data.get("threads", []); results = []
LoadInput ==
    /\ Running("load")
    /\ results' = <<>>
    /\ pc' = "for"
    /\ UNCHANGED <<avars, svars, gvars, status, api_key, max_retries, sleep, threads, idx, attempt, parsed,
                   error, file, inflight, calls, ok>>

\* for idx, thread in enumerate(threads, start=1): ... attempt = 0; parsed = {}; error = None
NextThread ==
    /\ Running("for")
    /\ idx < Len(threads)
    /\ idx' = idx + 1
    /\ attempt' = 0
    /\ parsed' = EmptyDict
    /\ error' = None
    /\ calls' = Append(calls, 0)
    /\ ok' = Append(ok, FALSE)
    /\ delays' = Append(delays, 0)
    /\ last_fail' = None
    /\ mixed' = FALSE
    /\ pc' = "while"
    /\ UNCHANGED <<avars, svars, naps, prev_dump, status, api_key, max_retries, sleep, threads, results, file, inflight>>

\* the for loop is exhausted
EndOfThreads ==
    /\ Running("for")
    /\ idx >= Len(threads)
    /\ pc' = "final"
    /\ UNCHANGED <<avars, svars, gvars, status, api_key, max_retries, sleep, threads, idx, attempt, parsed,
                   error, results, file, inflight, calls, ok>>

\* the while test holds: call_openai sends the request
SendRequest ==
    /\ Running("while")
    /\ LoopCondition(attempt, max_retries)
    /\ inflight' = inflight + 1
    /\ calls' = [calls EXCEPT ![idx] = @ + 1]
    /\ pc' = "await"
    /\ UNCHANGED <<avars, svars, gvars, status, api_key, max_retries, sleep, threads, idx, attempt, parsed,
                   error, results, file, ok>>

\* the while test fails: the retry budget is used up
LeaveLoop ==
    /\ Running("while")
    /\ ~LoopCondition(attempt, max_retries)
    /\ pc' = "build"
    /\ UNCHANGED <<avars, svars, gvars, status, api_key, max_retries, sleep, threads, idx, attempt, parsed,
                   error, results, file, inflight, calls, ok>>

\* call_openai raises an exception the except clause names:
\* error = str(e); attempt += 1
ReplyCaught ==
    /\ Running("await")
    /\ \E o \in Outcomes :
          /\ o.raises \in CaughtExceptions
          /\ error' = RecordError(error, StrOfException(o.raises))
          /\ last_fail' = StrOfException(o.raises)
          /\ mixed' = (mixed \/ last_fail \notin {None, StrOfException(o.raises)})
    /\ attempt' = attempt + 1
    /\ inflight' = inflight - 1
    /\ pc' = "retry_sleep"
    /\ UNCHANGED <<avars, svars, delays, naps, prev_dump, status, api_key, max_retries, sleep, threads, idx, parsed, results,
                   file, calls, ok>>

\* call_openai raises an exception the except clause does not name (TimeoutError:
\* the socket timeout expires while the response is awaited or read): the
\* exception leaves main()
ReplyUncaught ==
    /\ Running("await")
    /\ \E o \in Outcomes : o.raises # None /\ o.raises \notin CaughtExceptions
    /\ inflight' = inflight - 1
    /\ status' = "crashed"
    /\ UNCHANGED <<avars, svars, gvars, pc, api_key, max_retries, sleep, threads, idx, attempt, parsed,
                   error, results, file, calls, ok>>

\* call_openai returns a JSON value that is no mapping: resp.get raises
\* AttributeError in extract_json_content, which leaves main()
ReplyNotMapping ==
    /\ Running("await")
    /\ \E o \in Outcomes : o.raises = None /\ ~o.resp.mapping
    /\ inflight' = inflight - 1
    /\ status' = "crashed"
    /\ UNCHANGED <<avars, svars, gvars, pc, api_key, max_retries, sleep, threads, idx, attempt, parsed,
                   error, results, file, calls, ok>>

\* call_openai returns; parsed = extract_json_content(resp) is truthy: break
ReplyParsed ==
    /\ Running("await")
    /\ \E o \in Outcomes :
          /\ o.raises = None /\ o.resp.mapping
          /\ Truthy(extract_json_content(o.resp))
          /\ parsed' = extract_json_content(o.resp)
    /\ ok' = [ok EXCEPT ![idx] = TRUE]
    /\ inflight' = inflight - 1
    /\ pc' = "build"
    /\ UNCHANGED <<avars, svars, gvars, status, api_key, max_retries, sleep, threads, idx, attempt, error,
                   results, file, calls>>

\* call_openai returns; parsed is falsy: error = "Empty or ..."; attempt += 1
ReplyEmpty ==
    /\ Running("await")
    /\ \E o \in Outcomes :
          /\ o.raises = None /\ o.resp.mapping
          /\ ~Truthy(extract_json_content(o.resp))
          /\ parsed' = extract_json_content(o.resp)
    /\ error' = RecordError(error, EmptyReplyError)
    /\ last_fail' = EmptyReplyError
    /\ mixed' = (mixed \/ last_fail \notin {None, EmptyReplyError})
    /\ attempt' = attempt + 1
    /\ inflight' = inflight - 1
    /\ pc' = "retry_sleep"
    /\ UNCHANGED <<avars, svars, delays, naps, prev_dump, status, api_key, max_retries, sleep, threads, idx, results, file,
                   calls, ok>>

\* time.sleep(1.0) at the end of the loop body
RetrySleep ==
    /\ Running("retry_sleep")
    /\ delays' = [delays EXCEPT ![idx] = @ + 1]
    /\ pc' = "while"
    /\ UNCHANGED <<avars, svars, last_fail, mixed, naps, prev_dump, status, api_key, max_retries, sleep, threads, idx, attempt, parsed,
                   error, results, file, inflight, calls, ok>>

\* result = {...}; results.append(result)
BuildResult ==
    /\ Running("build")
    /\ parsed.kind = "dict"
    /\ results' = Append(results, Result(threads[idx], parsed, error))
    /\ pc' = AfterAppend
    /\ UNCHANGED <<avars, svars, gvars, status, api_key, max_retries, sleep, threads, idx, attempt, parsed,
                   error, file, inflight, calls, ok>>

\* parsed is a list: parsed.get raises AttributeError, which leaves main()
BuildCrash ==
    /\ Running("build")
    /\ parsed.kind # "dict"
    /\ status' = "crashed"
    /\ UNCHANGED <<avars, svars, gvars, pc, api_key, max_retries, sleep, threads, idx, attempt, parsed,
                   error, results, file, inflight, calls, ok>>

\* open(args.output, "w"): the artifact is created or truncated
OpenOutput ==
    /\ Running("open")
    /\ file' = Truncated
    /\ pc' = "dump"
    /\ UNCHANGED <<avars, svars, gvars, status, api_key, max_retries, sleep, threads, idx, attempt, parsed,
                   error, results, inflight, calls, ok>>

\* json.dump({"results": results}, f, ..) and the close of the with block
DumpOutput ==
    /\ Running("dump")
    /\ file' = Dumped(results)
    /\ prev_dump' = file'.results
    /\ pc' = AfterDump(sleep)
    /\ UNCHANGED <<avars, svars, delays, last_fail, mixed, naps, status, api_key, max_retries, sleep, threads, idx, attempt, parsed,
                   error, results, inflight, calls, ok>>

\* time.sleep(args.sleep)
ThreadSleep ==
    /\ Running("thread_sleep")
    /\ ~SleepRaises(sleep)
    /\ naps' = naps + 1
    /\ pc' = "progress"
    /\ UNCHANGED <<avars, svars, delays, last_fail, mixed, prev_dump, status, api_key, max_retries,
                   sleep, threads, idx, attempt, parsed, error, results, file, inflight, calls, ok>>

\* time.sleep(args.sleep) with a negative args.sleep raises ValueError, which
\* leaves main()
ThreadSleepCrash ==
    /\ Running("thread_sleep")
    /\ SleepRaises(sleep)
    /\ status' = "crashed"
    /\ UNCHANGED <<avars, svars, gvars, pc, api_key, max_retries, sleep, threads, idx, attempt,
                   parsed, error, results, file, inflight, calls, ok>>

\* print(f"Processed {idx}/{len(threads)}: {thread_id}")
Progress ==
    /\ Running("progress")
    /\ pc' = "for"
    /\ UNCHANGED <<avars, svars, gvars, status, api_key, max_retries, sleep, threads, idx, attempt, parsed,
                   error, results, file, inflight, calls, ok>>

\* print(f"Wrote {len(results)} classifications to {args.output}"); main() returns
Finish ==
    /\ Running("final")
    /\ status' = "done"
    /\ UNCHANGED <<avars, svars, gvars, pc, api_key, max_retries, sleep, threads, idx, attempt, parsed,
                   error, results, file, inflight, calls, ok>>

\* the process is interrupted (killed) wherever it is; a pending request is dropped
Interrupt ==
    /\ status = "running"
    /\ status' = "interrupted"
    /\ inflight' = 0
    /\ UNCHANGED <<avars, svars, gvars, pc, api_key, max_retries, sleep, threads, idx, attempt, parsed,
                   error, results, file, calls, ok>>

Next ==
    \/ CheckKey
    \/ LoadInput
    \/ NextThread
    \/ EndOfThreads
    \/ SendRequest
    \/ LeaveLoop
    \/ ReplyCaught
    \/ ReplyUncaught
    \/ ReplyNotMapping
    \/ ReplyParsed
    \/ ReplyEmpty
    \/ RetrySleep
    \/ BuildResult
    \/ BuildCrash
    \/ OpenOutput
    \/ DumpOutput
    \/ ThreadSleep
    \/ ThreadSleepCrash
    \/ Progress
    \/ Finish
    \/ Interrupt

Spec == Init /\ [][Next]_vars

\* the steps main() takes by itself: all but the interruption from outside
Proceed ==
    \/ CheckKey
    \/ LoadInput
    \/ NextThread
    \/ EndOfThreads
    \/ SendRequest
    \/ LeaveLoop
    \/ ReplyCaught
    \/ ReplyUncaught
    \/ ReplyNotMapping
    \/ ReplyParsed
    \/ ReplyEmpty
    \/ RetrySleep
    \/ BuildResult
    \/ BuildCrash
    \/ OpenOutput
    \/ DumpOutput
    \/ ThreadSleep
    \/ ThreadSleepCrash
    \/ Progress
    \/ Finish

\* main() is a sequential program that keeps executing: every statement
\* completes, and urlopen(req, timeout=60) returns or raises within its timeout
LiveSpec == Init /\ [][Next]_vars /\ WF_vars(Proceed)

----------------------------------------------------------------------------
(* The assembler: anonymize_messages.py *)

MaxMsgs == 3

\* conversationIdentity.conversationId of a raw message: missing, or an id
ConvIds == {None, "T1", "T2"}

\* createdDateTime of a raw message: missing, malformed, or ISO-8601
StampBefore == "1969-12-31T23:59:50Z"
StampEpoch == "1970-01-01T00:00:00Z"
StampAfter == "2024-01-01T00:00:00Z"
Stamps == {None, "garbage", StampBefore, StampEpoch, StampAfter}

\* the id of the i-th raw message: from the third message on, ids repeat
MessageIdAt(i) == IF i % 2 = 1 THEN "m1" ELSE "m2"

\* body.content of a raw message: a string (a sequence of characters), or null
NullBody == [null |-> TRUE, content |-> <<>>]
Body(s) == [null |-> FALSE, content |-> s]

\* the display names of the authors (from.user.displayName)
Authors == {<<"A", "l">>, <<"B", "o">>}

RawMessage(i, c, d) ==
    [id |-> MessageIdAt(i), conv |-> c, created |-> d, author |-> <<"A", "l">>, body |-> NullBody]

\* a raw message with another author and body
WithBody(m, a, b) == [m EXCEPT !.author = a, !.body = b]

\* the fields of the raw messages tried: conversation id and createdDateTime
RawFields == ConvIds \X Stamps

\* whether datetime.fromisoformat(dt.replace("Z", "+00:00")) accepts dt
IsIsoFormat(dt) == dt \in {StampBefore, StampEpoch, StampAfter}

\* int(datetime.fromisoformat(dt.replace("Z", "+00:00")).timestamp())
IsoTimestamp(dt) ==
    CASE dt = StampBefore -> -10
      [] dt = StampEpoch -> 0
      [] dt = StampAfter -> 1704067200

\* a variant whose fallback key is the largest epoch instead of 0
parse_iso_fallbackLast(dt) ==
    IF dt = None \/ dt = "" THEN <<IsoTimestamp(StampAfter), "">>
    ELSE IF IsIsoFormat(dt) THEN <<IsoTimestamp(dt), dt>>
    ELSE <<IsoTimestamp(StampAfter), dt>>

\* parse_iso(dt)
parse_iso(dt) ==
    IF dt = None \/ dt = "" THEN <<0, "">>
    ELSE IF IsIsoFormat(dt) THEN <<IsoTimestamp(dt), dt>>
    ELSE <<0, dt>>

\* Python's order of the strings that occur in sort keys (by code point)
StrOrder == <<"", StampBefore, StampEpoch, StampAfter, "garbage">>
StrRank(s) == CHOOSE i \in 1..Len(StrOrder) : StrOrder[i] = s

\* a < b for two (int, str) tuples
KeyLess(a, b) == a[1] < b[1] \/ (a[1] = b[1] /\ StrRank(a[2]) < StrRank(b[2]))

\* the order a stable sort by key gives: the indices of keys, each index going
\* before the first one whose key is greater than its own
InsertSorted(order, x, keys) ==
    LET later == {j \in 1..Len(order) : KeyLess(keys[x], keys[order[j]])}
        at == IF later = {} THEN Len(order) + 1
              ELSE CHOOSE j \in later : \A l \in later : j <= l
    IN  SubSeq(order, 1, at - 1) \o <<x>> \o SubSeq(order, at, Len(order))

RECURSIVE SortedOrder(_, _)
SortedOrder(keys, n) ==
    IF n = 0 THEN <<>> ELSE InsertSorted(SortedOrder(keys, n - 1), n, keys)

\* list.sort(key=..) of seq, keys[i] being the key of seq[i]
SortByKeys(seq, keys) ==
    LET order == SortedOrder(keys, Len(seq))
    IN  [j \in 1..Len(seq) |-> seq[order[j]]]

\* ---- strip_html: a string is a sequence of one-character strings ----

\* U+226A, the character html.unescape gives for "&ll;"
MuchLess == "U+226A"

\* the smallest element of a non-empty set of integers, and the largest
Least(S) == CHOOSE x \in S : \A y \in S : x <= y
Greatest(S) == CHOOSE x \in S : \A y \in S : y <= x

\* a variant of TAG_RE with * for +: "<>" is a tag too
TagAt_star(s, i) == s[i] = "<" /\ \E j \in (i + 1)..Len(s) : s[j] = ">"

\* TAG_RE = "<[^>]+>" matches at i: "<", at least one character that is not ">",
\* and then ">"
TagAt(s, i) ==
    /\ s[i] = "<"
    /\ i + 1 <= Len(s) /\ s[i + 1] # ">"
    /\ \E j \in (i + 2)..Len(s) : s[j] = ">"

\* the index of the ">" that ends the match at i
TagEnd(s, i) == Least({j \in (i + 1)..Len(s) : s[j] = ">"})

\* TAG_RE.sub("", s) from index i on: the matches are taken from left to right
\* and do not overlap
RECURSIVE SubTags(_, _)
SubTags(s, i) ==
    IF i > Len(s) THEN <<>>
    ELSE IF TagAt(s, i) THEN SubTags(s, TagEnd(s, i) + 1)
    ELSE <<s[i]>> \o SubTags(s, i + 1)

\* str.split() separates at whitespace
IsSpace(c) == c = " "

\* html.unescape looks for "&" followed by 1 to 32 characters of [^\t\n\f <&#;]
\* and an optional ";" (the strings of the model are shorter than 32)
IsNameChar(c) == c \notin {" ", "<", "&", ";"}

\* the index after the run of name characters that starts at i
NameEnd(s, i) == Least({j \in i..(Len(s) + 1) : j > Len(s) \/ ~IsNameChar(s[j])})

\* the names of html.entities.html5 the strings of the model can spell
Html5Names == {<<"l", "t">>, <<"l", "t", ";">>, <<"l", "l", ";">>}
Html5(name) == IF name = <<"l", "l", ";">> THEN MuchLess ELSE "<"

\* replace_charref of html.unescape for a named reference: the whole name, else
\* its longest proper prefix of two characters or more, else unchanged
replace_charref(ref) ==
    IF ref \in Html5Names THEN <<Html5(ref)>>
    ELSE LET xs == {x \in 2..(Len(ref) - 1) : SubSeq(ref, 1, x) \in Html5Names}
         IN  IF xs # {}
             THEN <<Html5(SubSeq(ref, 1, Greatest(xs)))>>
                      \o SubSeq(ref, Greatest(xs) + 1, Len(ref))
             ELSE <<"&">> \o ref

\* html.unescape(s) from index i on
RECURSIVE Unescape(_, _)
Unescape(s, i) ==
    IF i > Len(s) THEN <<>>
    ELSE IF s[i] # "&" \/ NameEnd(s, i + 1) = i + 1 THEN <<s[i]>> \o Unescape(s, i + 1)
    ELSE LET j == NameEnd(s, i + 1)
             k == IF j <= Len(s) /\ s[j] = ";" THEN j + 1 ELSE j
         IN  replace_charref(SubSeq(s, i + 1, k - 1)) \o Unescape(s, k)

\* " ".join(s.split()) from index i on: of every run of whitespace the first
\* character stays, as a space, unless the run starts or ends the string
RECURSIVE JoinSplit(_, _)
JoinSplit(s, i) ==
    IF i > Len(s) THEN <<>>
    ELSE IF IsSpace(s[i])
         THEN IF i = 1 \/ IsSpace(s[i - 1]) \/ \A j \in i..Len(s) : IsSpace(s[j])
              THEN JoinSplit(s, i + 1)
              ELSE <<" ">> \o JoinSplit(s, i + 1)
         ELSE <<s[i]>> \o JoinSplit(s, i + 1)

\* strip_html(text)
strip_html(text) == JoinSplit(Unescape(SubTags(text, 1), 1), 1)

\* if not conv_id: continue
NoConversation(conv_id) == conv_id = None \/ conv_id = ""

\* content = body.get("content"); if content is None: content = ""
ContentOf(m) == IF m.body.null THEN <<>> ELSE m.body.content

\* "message": content if args.keep_html else strip_html(str(content))
MessageText(m, keep) == IF keep THEN ContentOf(m) ELSE strip_html(ContentOf(m))

\* the message dict built for raw message i (src: the raw message it comes from)
Normalized(i) ==
    [user |-> "XXXX",
     message |-> MessageText(messages[i], keep_html),
     sort |-> messages[i].created,
     src |-> i]

\* a variant that opens a new bucket for every message
AppendToThread_newBucket(d, conv_id, msg) ==
    Append(d, [tid |-> conv_id, msgs |-> <<msg>>])

\* threads.setdefault(conv_id, []); threads[conv_id].append(msg)
AppendToThread(d, conv_id, msg) ==
    IF \E j \in 1..Len(d) : d[j].tid = conv_id
    THEN [j \in 1..Len(d) |->
             IF d[j].tid = conv_id THEN [d[j] EXCEPT !.msgs = Append(@, msg)] ELSE d[j]]
    ELSE Append(d, [tid |-> conv_id, msgs |-> <<msg>>])

\* key=lambda x: parse_iso(x.get("_sort"))
MessageKey(msg) == parse_iso(msg.sort)

\* msgs.sort(key=..)
SortMessages(msgs) == SortByKeys(msgs, [i \in 1..Len(msgs) |-> MessageKey(msgs[i])])

\* a variant that takes the last message of the thread
ThreadSort_last(msgs) == IF msgs # <<>> THEN msgs[Len(msgs)].sort ELSE None

\* thread_sort = msgs[0].get("_sort") if msgs else None
ThreadSort(msgs) == IF msgs # <<>> THEN msgs[1].sort ELSE None

\* key=lambda t: parse_iso(t.get("_thread_sort")) if t["messages"] else (0, "")
ThreadKey(t) == IF t.messages # <<>> THEN parse_iso(t.thread_sort) ELSE <<0, "">>

\* thread_list.sort(key=..)
SortThreadList(ts) == SortByKeys(ts, [i \in 1..Len(ts) |-> ThreadKey(ts[i])])

\* msg.pop("_sort", None)
PopSort(msg) == [user |-> msg.user, message |-> msg.message, src |-> msg.src]

\* t.pop("_thread_sort", None), with the messages' _sort popped
PopThreadSort(t) ==
    [thread_id |-> t.thread_id,
     messages |-> [j \in 1..Len(t.messages) |-> PopSort(t.messages[j])]]

\* the classifier is not part of an assembler run
ClassifierOff ==
    /\ pc = "off"
    /\ status = "off"
    /\ api_key = FALSE
    /\ max_retries = 0
    /\ sleep = 0
    /\ threads = <<>>
    /\ idx = 0
    /\ attempt = 0
    /\ parsed = EmptyDict
    /\ error = None
    /\ results = <<>>
    /\ file = Absent
    /\ inflight = 0
    /\ calls = <<>>
    /\ ok = <<>>
    /\ delays = <<>>
    /\ last_fail = None
    /\ mixed = FALSE
    /\ naps = 0
    /\ prev_dump = <<>>

\* the JSON documents the input file may hold: one whose "messages" is a list
\* (the elements are in the variable messages), and malformed ones
MessagesList == "{\"messages\": [...]}"
MalformedDocs ==
    {"[]", "{\"messages\": null}", "{\"messages\": 5}", "{\"messages\": {}}",
     "{\"messages\": \"\"}", "{\"messages\": {\"a\": 1}}", "{\"messages\": \"ab\"}"}

\* data.get: only a dict has .get
IsMapping(d) == d # "[]"

\* for m in messages: None and an int cannot be iterated (TypeError)
IsIterable(d) == d \notin {"{\"messages\": null}", "{\"messages\": 5}"}

\* iterating a non-empty dict or str yields str elements: m.get raises
\* AttributeError
YieldsStr(d) == d \in {"{\"messages\": {\"a\": 1}}", "{\"messages\": \"ab\"}"}

\* the input document: well-formed with the messages of the variable messages,
\* or malformed
InputDoc ==
    \/ doc = MessagesList
    \/ doc \in MalformedDocs /\ messages = <<>>

\* strip_html applied on its own is not part of an assembler run
AssemblerStart ==
    /\ ClassifierOff
    /\ StripOff
    /\ a_pc = "load"
    /\ by_id = <<>>
    /\ conv_threads = <<>>
    /\ cursor = 0
    /\ thread_list = <<>>
    /\ out = [exists |-> FALSE, threads |-> <<>>]

AssemblerInit ==
    /\ AssemblerStart
    /\ keep_html = FALSE
    /\ \E k \in 0..MaxMsgs :
          \E f \in [1..k -> RawFields] :
              messages = [i \in 1..k |-> RawMessage(i, f[i][1], f[i][2])]
    /\ InputDoc

\* json.load of the input; messages = data.get("messages", [])
LoadMessages ==
    /\ a_pc = "load"
    /\ IsMapping(doc)
    /\ a_pc' = "index"
    /\ UNCHANGED <<cvars, svars, doc, keep_html, messages, by_id, conv_threads, cursor, thread_list, out>>

\* the top level of the input is no mapping: data.get raises AttributeError,
\* which leaves main()
LoadCrash ==
    /\ a_pc = "load"
    /\ ~IsMapping(doc)
    /\ a_pc' = "crashed"
    /\ UNCHANGED <<cvars, svars, doc, keep_html, messages, by_id, conv_threads, cursor,
                   thread_list, out>>

\* "messages" cannot be iterated, or yields elements without .get: the first
\* for loop raises TypeError or AttributeError, which leaves main()
IndexCrash ==
    /\ a_pc = "index"
    /\ ~IsIterable(doc) \/ YieldsStr(doc)
    /\ a_pc' = "crashed"
    /\ UNCHANGED <<cvars, svars, doc, keep_html, messages, by_id, conv_threads, cursor,
                   thread_list, out>>

\* for m in messages: by_id[mid] = m  (a later message replaces an earlier one)
BuildIndex ==
    /\ a_pc = "index"
    /\ IsIterable(doc) /\ ~YieldsStr(doc)
    /\ by_id' = [mid \in {messages[i].id : i \in 1..Len(messages)} |->
                    CHOOSE i \in 1..Len(messages) :
                        /\ messages[i].id = mid
                        /\ \A j \in 1..Len(messages) : messages[j].id = mid => j <= i]
    /\ conv_threads' = <<>>
    /\ cursor' = 0
    /\ a_pc' = "group"
    /\ UNCHANGED <<cvars, svars, doc, keep_html, messages, thread_list, out>>

\* one iteration of the grouping loop
GroupMessage ==
    /\ a_pc = "group"
    /\ cursor < Len(messages)
    /\ LET i == cursor + 1
           conv_id == messages[i].conv
       IN  conv_threads' = IF NoConversation(conv_id) THEN conv_threads
                           ELSE AppendToThread(conv_threads, conv_id, Normalized(i))
    /\ cursor' = cursor + 1
    /\ UNCHANGED <<cvars, svars, doc, keep_html, a_pc, messages, by_id, thread_list, out>>

\* the grouping loop is exhausted; thread_list = []
GroupDone ==
    /\ a_pc = "group"
    /\ cursor = Len(messages)
    /\ thread_list' = <<>>
    /\ cursor' = 0
    /\ a_pc' = "sort"
    /\ UNCHANGED <<cvars, svars, doc, keep_html, messages, by_id, conv_threads, out>>

\* one iteration of "for tid, msgs in threads.items()": msgs is sorted in place
SortThread ==
    /\ a_pc = "sort"
    /\ cursor < Len(conv_threads)
    /\ LET j == cursor + 1
           msgs == SortMessages(conv_threads[j].msgs)
       IN  /\ conv_threads' = [conv_threads EXCEPT ![j].msgs = msgs]
           /\ thread_list' = Append(thread_list,
                                    [thread_id |-> conv_threads[j].tid,
                                     messages |-> msgs,
                                     thread_sort |-> ThreadSort(msgs)])
    /\ cursor' = cursor + 1
    /\ UNCHANGED <<cvars, svars, doc, keep_html, a_pc, messages, by_id, out>>

\* thread_list.sort(key=..)
SortThreads ==
    /\ a_pc = "sort"
    /\ cursor = Len(conv_threads)
    /\ thread_list' = SortThreadList(thread_list)
    /\ a_pc' = "write"
    /\ UNCHANGED <<cvars, svars, doc, keep_html, messages, by_id, conv_threads, cursor, out>>

\* the sort inputs are popped and {"threads": thread_list} is dumped
WriteThreads ==
    /\ a_pc = "write"
    /\ out' = [exists |-> TRUE,
               threads |-> [j \in 1..Len(thread_list) |-> PopThreadSort(thread_list[j])]]
    /\ a_pc' = "done"
    /\ UNCHANGED <<cvars, svars, doc, keep_html, messages, by_id, conv_threads, cursor, thread_list>>

AssemblerNext ==
    \/ LoadMessages
    \/ LoadCrash
    \/ IndexCrash
    \/ BuildIndex
    \/ GroupMessage
    \/ GroupDone
    \/ SortThread
    \/ SortThreads
    \/ WriteThreads

AssemblerSpec == AssemblerInit /\ [][AssemblerNext]_vars

\* ---- the assembler run on messages with authors and bodies ----

MaxAnonMsgs == 2

\* the bodies tried: null, "hi", "<b>Al</b>" and "&lt;Bo  !"
Bodies ==
    {NullBody,
     Body(<<"h", "i">>),
     Body(<<"<", "b", ">", "A", "l", "<", "/", "b", ">">>),
     Body(<<"&", "l", "t", ";", "B", "o", " ", " ", "!">>)}

\* the fields of the raw messages tried: conversation id, author and body
AnonFields == {None, "T1"} \X Authors \X Bodies

AnonInit ==
    /\ AssemblerStart
    /\ keep_html \in BOOLEAN
    /\ \E k \in 0..MaxAnonMsgs :
          \E f \in [1..k -> AnonFields] :
              messages = [i \in 1..k |->
                             WithBody(RawMessage(i, f[i][1], StampAfter), f[i][2], f[i][3])]
    /\ InputDoc

AnonSpec == AnonInit /\ [][AssemblerNext]_vars

----------------------------------------------------------------------------
(* strip_html applied on its own to every short string *)

MaxLen == 5

\* the characters of the strings tried
Chars == {"<", ">", "&", ";", " ", "l", "t"}

StripInit ==
    /\ ClassifierOff
    /\ AssemblerOff
    /\ s_pc = "start"
    /\ \E k \in 0..MaxLen : given \in [1..k -> Chars]
    /\ stripped = <<>>
    /\ restripped = <<>>

\* stripped = strip_html(given)
StripOnce ==
    /\ s_pc = "start"
    /\ stripped' = strip_html(given)
    /\ s_pc' = "once"
    /\ UNCHANGED <<cvars, avars, given, restripped>>

\* restripped = strip_html(stripped)
StripTwice ==
    /\ s_pc = "once"
    /\ restripped' = strip_html(stripped)
    /\ s_pc' = "twice"
    /\ UNCHANGED <<cvars, avars, given, stripped>>

StripNext == StripOnce \/ StripTwice

StripSpec == StripInit /\ [][StripNext]_vars

----------------------------------------------------------------------------
(* Claims about the classifier (specification Spec) *)

\* thread i has left its retry loop: by the failing while test, by break, or by
\* an exception that nothing catches
LoopLeft(i) ==
    \/ i < idx
    \/ i = idx /\ (pc \notin {"while", "await", "retry_sleep"} \/ status = "crashed")

\* the four classification fields of a result are all the empty string
FieldsEmpty(r) ==
    r.incident_number = "" /\ r.root_cause = "" /\ r.type = "" /\ r.severity = ""

\* C1 (retry termination): with max_retries >= 0, a thread none of whose attempts
\* succeeded has cost exactly 1 + max_retries service calls once its retry loop
\* is over, and its result is then appended: error non-null, all four fields "".
C1_RetryTermination ==
    \A i \in 1..idx :
        (max_retries >= 0 /\ LoopLeft(i) /\ ~ok[i]) =>
            /\ calls[i] = 1 + max_retries
            /\ \/ /\ i <= Len(results)
                  /\ results[i].error # None
                  /\ FieldsEmpty(results[i])
               \/ i = idx /\ pc = "build" /\ status \in {"running", "interrupted"}

\* C1, the part the code keeps: as long as no exception has left main(), a thread
\* none of whose attempts succeeded has cost exactly 1 + max_retries calls and is
\* recorded with a non-null error and empty fields.
C1_RetryTerminationUnlessCrashed ==
    status # "crashed" => C1_RetryTermination

\* the artifact holds exactly the first k results of this run; an artifact that
\* is absent or empty is taken to hold no result
HoldsExactly(k) ==
    \/ file = Dumped(SubSeq(results, 1, k))
    \/ k = 0 /\ (~file.exists \/ file = Truncated)

\* C2 (crash safety): whenever the run is interrupted, the artifact holds exactly
\* the results of the k threads that reached a terminal state, in processing
\* order. k is read in the way most favourable to the code: the threads whose
\* result is appended, or those but the last one (whose rewrite was under way);
\* and only runs with max_retries >= 0 are looked at.
C2_CrashSafety ==
    (status = "interrupted" /\ max_retries >= 0) =>
        \E k \in {Len(results) - 1, Len(results)} : k >= 0 /\ HoldsExactly(k)

\* C3 (success stops the retries): the attempt whose reply parses to a non-empty
\* object ends the thread's loop; from then on no service call is made for the
\* thread and parsed is kept, and the result appended for it carries the four
\* fields of that reply and error = None, whatever the earlier attempts left in
\* error.
C3_SuccessStopsRetry ==
    [][/\ (idx > 0 /\ idx' = idx /\ ok[idx]) =>
              /\ calls'[idx] = calls[idx]
              /\ inflight' = 0
              /\ parsed' = parsed
       /\ (idx > 0 /\ idx' = idx /\ ~ok[idx] /\ ok'[idx]) =>
              /\ pc' = "build"
              /\ Truthy(parsed')
       /\ (idx > 0 /\ ok[idx] /\ Len(results') = Len(results) + 1) =>
              results'[idx] =
                  [thread_id |-> threads[idx],
                   incident_number |-> DictGet(parsed, "Incident Number"),
                   root_cause |-> DictGet(parsed, "Root Cause"),
                   type |-> DictGet(parsed, "Type"),
                   severity |-> DictGet(parsed, "Severity"),
                   error |-> None]]_vars

\* C3's case: a thread succeeded on its second attempt, after a failed first one,
\* and its result is recorded with the reply's fields and no error
C3_Witness ==
    \E i \in 1..Len(results) :
        /\ ok[i] /\ calls[i] = 2
        /\ results[i].error = None
        /\ results[i].incident_number = "INC1"
        /\ results[i].severity = "High"

\* C4 (exactly one of data and error): every recorded result either has
\* error = None and comes from a non-empty parsed reply, or has a non-null error
\* and four empty fields, for every --max-retries value.
C4_DataXorError ==
    \A i \in 1..Len(results) :
        (results[i].error = None /\ ok[i])
            # (results[i].error # None /\ FieldsEmpty(results[i]))

\* C5 (per-thread isolation): no failure of the service during an attempt aborts
\* the batch: main() is never left by an exception while a reply is awaited.
C5_Isolation == ~(status = "crashed" /\ pc = "await")

\* C6 (all results persisted): when the run completes, the artifact exists and
\* holds exactly one result per input thread, in input order, also for an empty
\* thread list.
C6_AllPersisted ==
    status = "done" =>
        /\ file.exists /\ file.complete
        /\ Len(file.results) = Len(threads)
        /\ \A i \in 1..Len(file.results) : file.results[i].thread_id = threads[i]

\* C7 (one thread at a time, in order): at most one request is in flight, only
\* while call_openai is awaited; threads are taken in input order; and while a
\* request for thread idx is in flight every earlier thread has its result
\* appended, in input order, and the artifact holds exactly those results.
C7_OneAtATime ==
    /\ inflight <= 1
    /\ inflight = 1 => status = "running" /\ pc = "await"
    /\ Len(calls) = idx
    /\ (pc = "await" /\ status = "running") =>
          /\ inflight = 1
          /\ Len(results) = idx - 1
          /\ \A j \in 1..(idx - 1) : results[j].thread_id = threads[j]
          /\ idx > 1 => file = Dumped(results)

\* C7's case: a request for the second thread is in flight
C7_Witness == pc = "await" /\ status = "running" /\ idx = 2 /\ inflight = 1

\* C12 (missing credential): without the credential the run never gets past the
\* credential check, where it stops as a fatal configuration error: the input is
\* not read, no service call is made and the artifact is neither created nor
\* truncated; and a run stops as fatal for no other reason.
C12_MissingKeyIsFatal ==
    /\ ~api_key =>
          /\ pc = "check_key"
          /\ status \in {"running", "fatal", "interrupted"}
          /\ calls = <<>> /\ inflight = 0
          /\ results = <<>>
          /\ file = Absent
    /\ status = "fatal" => ~api_key

\* C12's case: the run has stopped as fatal, with more than one thread waiting in
\* the input
C12_Witness ==
    status = "fatal" /\ ~api_key /\ Len(threads) = 2 /\ file = Absent /\ calls = <<>>

\* C15 (the retry delay is an inter-attempt delay): a thread that has left its
\* retry loop after a attempts has had exactly a - 1 retry delays (none without
\* an attempt): every delay lies between two attempts, and none follows the
\* thread's final attempt, be it a success or the one that uses up the budget.
C15_DelaysBetweenAttempts ==
    \A i \in 1..idx :
        LoopLeft(i) => delays[i] = IF calls[i] = 0 THEN 0 ELSE calls[i] - 1

\* C15, what the code does: a retry delay follows every attempt that failed and
\* was caught, the final one included, and no delay follows a success.
C15_DelayAfterEveryFailure ==
    \A i \in 1..idx :
        (LoopLeft(i) /\ ~(i = idx /\ status = "crashed" /\ pc = "await")) =>
            delays[i] = IF ok[i] THEN calls[i] - 1 ELSE calls[i]

\* C16 (FAILED only after the budget, with the latest error): every recorded
\* result with a non-null error belongs to a thread none of whose attempts
\* succeeded and that has made all of its 1 + max_retries attempts; and when
\* such a result is recorded, its error is the description of the latest failed
\* attempt of the thread.
C16_FailedAfterBudget ==
    /\ [](\A i \in 1..Len(results) :
              results[i].error # None => ~ok[i] /\ calls[i] = 1 + max_retries)
    /\ [][(Len(results') = Len(results) + 1 /\ results'[idx].error # None) =>
               /\ attempt > max_retries
               /\ results'[idx].error = last_fail]_vars

\* C16's case: a thread failed twice with different descriptions, the second
\* being that of a caught exception, and has just been recorded with the second
C16_Witness ==
    /\ pc = "open" /\ Len(results) = idx
    /\ calls[idx] = 2 /\ mixed
    /\ results[idx].error = StrOfException("URLError")
    /\ FieldsEmpty(results[idx])

\* C17 (result extraction never crashes): a reply that parses as non-empty JSON,
\* object or not, never makes main() fail: once such a reply has ended the retry
\* loop, no exception leaves main() while the result is built.
C17_ExtractionNeverCrashes ==
    ~(status = "crashed" /\ pc = "build" /\ Truthy(parsed))

\* the threads whose inter-thread delay is due: those whose result has been
\* written and that are past the sleep statement
DelaysDue ==
    IF idx = 0 THEN 0
    ELSE IF pc \in {"progress", "for", "final"} THEN idx ELSE idx - 1

\* the inter-thread delay is made exactly once after every thread whose result
\* has been written, SUCCEEDED or FAILED, and only after that write; it never
\* fails
DelayAfterEveryThread ==
    /\ naps = DelaysDue
    /\ (pc = "thread_sleep" \/ (naps = idx /\ idx > 0)) =>
          /\ Len(results) = idx
          /\ file = Dumped(results)
    /\ ~(status = "crashed" /\ pc = "thread_sleep")

\* C18 as stated (inter-thread delay): when a non-zero inter-thread delay is
\* configured, it is made exactly once after every thread, whether SUCCEEDED or
\* FAILED, and only after the thread's result has been written to the artifact
\* (only runs with max_retries >= 0 are looked at).
C18_NonZeroDelayApplied == (sleep # 0 /\ max_retries >= 0) => DelayAfterEveryThread

\* C18 as amended: the same for a positive inter-thread delay.
C18_PositiveDelayApplied == sleep > 0 => DelayAfterEveryThread

\* C18's case: with a positive delay, a first thread that FAILED and a second one
\* that SUCCEEDED have both been written and followed by one delay each
C18_Witness ==
    /\ sleep > 0 /\ naps = 2 /\ pc = "progress"
    /\ Len(results) = 2
    /\ results[1].error # None /\ results[2].error = None
    /\ file = Dumped(results)

\* C19 (the persisted results only grow): every completed rewrite of the
\* artifact holds the results of the previous completed rewrite, unchanged and
\* in the same order, followed by exactly one new result; prev_dump is what the
\* previous completed rewrite wrote.
C19_PersistedOnlyGrows ==
    [][(file'.complete /\ file' # file) =>
           /\ Len(file'.results) = Len(prev_dump) + 1
           /\ SubSeq(file'.results, 1, Len(prev_dump)) = prev_dump
           /\ prev_dump' = file'.results]_vars

\* C19's case: the run is over and the second rewrite has added the result of a
\* thread that SUCCEEDED to that of a thread that FAILED
C19_Witness ==
    /\ status = "done"
    /\ file.complete /\ Len(file.results) = 2
    /\ file.results[1].error # None /\ file.results[2].error = None
    /\ file.results[1].thread_id # file.results[2].thread_id

\* max(0, 1 + max_retries)
CallBudget == IF 1 + max_retries > 0 THEN 1 + max_retries ELSE 0

\* C20 (termination): no thread costs more than max(0, 1 + max_retries) service
\* calls, the threads are taken once each and in order, and a run that ends by
\* itself (not stopped for a missing credential, not interrupted from outside)
\* ends after the final print, with every thread processed once.
C20_EndsAfterEveryThread ==
    /\ \A i \in 1..Len(calls) : calls[i] <= CallBudget
    /\ Len(calls) = idx /\ idx <= Len(threads)
    /\ status \in {"done", "crashed"} =>
          /\ status = "done" /\ pc = "final"
          /\ idx = Len(threads)
          /\ Len(results) = Len(threads)

\* C20, the part the code keeps: no thread costs more than
\* max(0, 1 + max_retries) service calls, every thread is entered at most once,
\* every run stops, and a run that returns from main() has processed every
\* thread once.
C20_AlwaysStops ==
    /\ [](\A i \in 1..Len(calls) : calls[i] <= CallBudget)
    /\ [](Len(calls) = idx /\ idx <= Len(threads))
    /\ [](status = "done" => idx = Len(threads) /\ Len(results) = Len(threads))
    /\ <>(status # "running")

----------------------------------------------------------------------------
(* Claims about the assembler (specification AssemblerSpec) *)

\* the places <<t, j>> of the output at which raw message i stands
PlacesOf(i) ==
    {<<t, j>> \in (1..Len(out.threads)) \X (1..Len(messages)) :
        j <= Len(out.threads[t].messages) /\ out.threads[t].messages[j].src = i}

\* C8 (grouping completeness): in the output, every raw message with a non-empty
\* conversation id stands at exactly one place, in the thread whose thread_id is
\* its conversation id; a raw message without one stands nowhere; and no two
\* threads share a thread_id. Message ids play no part.
C8_GroupingComplete ==
    a_pc = "done" =>
        /\ \A i \in 1..Len(messages) :
              IF NoConversation(messages[i].conv)
              THEN PlacesOf(i) = {}
              ELSE /\ Cardinality(PlacesOf(i)) = 1
                   /\ \A p \in PlacesOf(i) : out.threads[p[1]].thread_id = messages[i].conv
        /\ \A t, u \in 1..Len(out.threads) :
              out.threads[t].thread_id = out.threads[u].thread_id => t = u

\* C8's case: three raw messages, the first and the third with the same id, two
\* of them in one conversation and one without a conversation, are assembled
C8_Witness ==
    /\ a_pc = "done"
    /\ Len(messages) = 3
    /\ messages[1].id = messages[3].id
    /\ messages[1].conv = "T1" /\ messages[2].conv = None /\ messages[3].conv = "T1"
    /\ Len(out.threads) = 1
    /\ Len(out.threads[1].messages) = 2

\* the sort key of the raw message an output message comes from
KeyOf(msg) == parse_iso(messages[msg.src].created)

\* C9 (ordering): in the output, the sort keys (epoch-seconds, raw string) of the
\* messages of every thread are non-decreasing, and so are the sort keys of the
\* threads, a thread's sort key being that of its first message.
C9_Ordering ==
    a_pc = "done" =>
        /\ \A t \in 1..Len(out.threads) :
              \A j \in 1..(Len(out.threads[t].messages) - 1) :
                  ~KeyLess(KeyOf(out.threads[t].messages[j + 1]),
                           KeyOf(out.threads[t].messages[j]))
        /\ \A t \in 1..(Len(out.threads) - 1) :
              ~KeyLess(KeyOf(out.threads[t + 1].messages[1]),
                       KeyOf(out.threads[t].messages[1]))

\* C9's case: a thread whose two messages came in descending order, and a second
\* thread that came first in the input but is later in time
C9_Witness ==
    /\ a_pc = "done"
    /\ Len(messages) = 3
    /\ messages[1].conv = "T2" /\ messages[1].created = StampAfter
    /\ messages[2].conv = "T1" /\ messages[2].created = StampEpoch
    /\ messages[3].conv = "T1" /\ messages[3].created = StampBefore
    /\ Len(out.threads) = 2
    /\ out.threads[1].thread_id = "T1"
    /\ out.threads[1].messages[1].src = 3

\* the timestamp of raw message i is missing or unparsable
BadStamp(i) == ~IsIsoFormat(messages[i].created)

\* the valid timestamps a statement is about: all of them, or those after the epoch
Concerned(secs, all) == all \/ secs > 0

\* every message without a usable timestamp stands before every message of its
\* thread whose timestamp is valid and concerned, and every thread whose first
\* message has no usable timestamp stands before every thread whose first
\* message has a valid timestamp that is concerned
BadStampsFirst(all) ==
    /\ \A t \in 1..Len(out.threads) :
          LET ms == out.threads[t].messages
          IN  \A j, l \in 1..Len(ms) :
                  (BadStamp(ms[j].src) /\ ~BadStamp(ms[l].src)
                      /\ Concerned(IsoTimestamp(messages[ms[l].src].created), all)) => j < l
    /\ \A t, u \in 1..Len(out.threads) :
          LET a == out.threads[t].messages[1].src
              b == out.threads[u].messages[1].src
          IN  (BadStamp(a) /\ ~BadStamp(b)
                  /\ Concerned(IsoTimestamp(messages[b].created), all)) => t < u

\* C10 as stated (timestamp policy): a message or thread whose timestamp is
\* missing or unparsable sorts before every one whose timestamp is valid, also
\* when the valid timestamp is at or before the epoch.
C10_BadStampsBeforeAll == a_pc = "done" => BadStampsFirst(TRUE)

\* C10 as amended: a message or thread whose timestamp is missing or unparsable
\* sorts before every one whose timestamp is valid and lies after the epoch
\* (epoch-seconds > 0).
C10_BadStampsBeforeLater == a_pc = "done" => BadStampsFirst(FALSE)

\* C10's case: within one thread a message with an unparsable timestamp came
\* after a message dated after the epoch, and a thread with a missing timestamp
\* came after a thread dated after the epoch; both were moved to the front
C10_Witness ==
    /\ a_pc = "done"
    /\ Len(messages) = 3
    /\ messages[1].conv = "T1" /\ messages[1].created = StampAfter
    /\ messages[2].conv = "T1" /\ messages[2].created = "garbage"
    /\ messages[3].conv = "T2" /\ messages[3].created = None
    /\ Len(out.threads) = 2
    /\ out.threads[1].thread_id = "T2"
    /\ out.threads[2].messages[1].src = 2

\* C13 (malformed input is fatal): whenever the top level of the input is no
\* mapping, or its "messages" is no sequence (null, a number, a mapping or a
\* string, empty or not), the assembler does not complete and the output file is
\* never created or written.
C13_MalformedInputIsFatal ==
    doc \in MalformedDocs => ~out.exists /\ a_pc # "done"

\* C13, the part the code keeps: the malformed inputs other than the empty
\* mapping and the empty string for "messages" stop the assembler without output.
C13_NonEmptyMalformedIsFatal ==
    (doc \in MalformedDocs /\ (~IsIterable(doc) \/ YieldsStr(doc) \/ ~IsMapping(doc))) =>
        ~out.exists /\ a_pc \in {"load", "index", "crashed"}

----------------------------------------------------------------------------
(* Claims about anonymization (specification AnonSpec) *)

\* name occurs in text as a substring
Contains(text, name) ==
    \E i \in 1..(Len(text) - Len(name) + 1) : SubSeq(text, i, i + Len(name) - 1) = name

\* the messages of the output, as places <<thread, position>>
OutPlaces ==
    {<<u, j>> \in (1..Len(out.threads)) \X (1..Len(messages)) :
        j <= Len(out.threads[u].messages)}

\* C11 (anonymization totality): every message of the output has the user
\* "XXXX", and its text does not contain the display name of the author of the
\* raw message it comes from, also when the body of that message names its
\* author.
C11_AnonymizationTotal ==
    a_pc = "done" =>
        \A p \in OutPlaces :
            LET m == out.threads[p[1]].messages[p[2]]
            IN  /\ m.user = "XXXX"
                /\ ~Contains(m.message, messages[m.src].author)

\* C11, the part the code keeps: the user of every message of the output is the
\* placeholder, whoever the author was.
C11_PlaceholderUser ==
    a_pc = "done" =>
        \A p \in OutPlaces : out.threads[p[1]].messages[p[2]].user = "XXXX"

----------------------------------------------------------------------------
(* Claims about strip_html (specification StripSpec) *)

\* s has a tag span: "<", one or more characters other than ">", and ">"
HasTagSpan(s) ==
    \E i, j \in 1..Len(s) :
        /\ j >= i + 2
        /\ s[i] = "<" /\ s[j] = ">"
        /\ \A k \in (i + 1)..(j - 1) : s[k] # ">"

\* s has an HTML entity: "&lt" (with or without its ";") or "&ll;"
HasEntity(s) ==
    \E i \in 1..Len(s) :
        /\ s[i] = "&"
        /\ \/ i + 2 <= Len(s) /\ SubSeq(s, i + 1, i + 2) = <<"l", "t">>
           \/ i + 3 <= Len(s) /\ SubSeq(s, i + 1, i + 3) = <<"l", "l", ";">>

\* s is already stripped: no tag span, no entity, no whitespace at either end and
\* no two whitespace characters in a row
AlreadyStripped(s) ==
    /\ ~HasTagSpan(s)
    /\ ~HasEntity(s)
    /\ s # <<>> => s[1] # " " /\ s[Len(s)] # " "
    /\ \A i \in 1..(Len(s) - 1) : ~(s[i] = " " /\ s[i + 1] = " ")

\* C14 (stripping an already-stripped string): strip_html returns every
\* already-stripped string unchanged; and whenever strip_html(s) is an
\* already-stripped string, strip_html(strip_html(s)) = strip_html(s).
C14_StripIdempotent ==
    /\ (s_pc \in {"once", "twice"} /\ AlreadyStripped(given)) => stripped = given
    /\ (s_pc = "twice" /\ AlreadyStripped(stripped)) => restripped = stripped

\* C14's case: a string with a tag span at its start and whitespace at its end
\* was stripped to a non-empty already-stripped string, and stripped again
C14_Witness ==
    /\ s_pc = "twice"
    /\ given # <<>> /\ TagAt(given, 1) /\ given[Len(given)] = " "
    /\ stripped # <<>> /\ AlreadyStripped(stripped)
    /\ restripped = stripped

\* the strings the condition of C14 leaves out: strip_html(s) has a tag span, and
\* stripping it again changes it ("&ltt>" gives "<t>", which gives "")
C14_OtherStrings ==
    s_pc = "twice" /\ ~AlreadyStripped(stripped) /\ restripped # stripped

====
